---- MODULE Spec2Model ----
(***************************************************************************)
(* A model of ecb_datainfo.ECB_DATA_INFO: the connection set-up and the    *)
(* response validator, the metadata discovery operations and the           *)
(* URL building / data retrieval operation.                                *)
(*                                                                         *)
(* Text is modelled as a sequence of one-character strings, so that        *)
(* splitting, formatting and concatenation are computed as Python          *)
(* computes them.  A Python value is a tagged record (None, str, int,      *)
(* bool), so that truthiness and f-string formatting are computed.         *)
(***************************************************************************)
EXTENDS Integers, Sequences, FiniteSets, TLC

VARIABLES
    module,   \* position of the importing process: "unloaded", "loaded", "import_failed"
    self,     \* the ECB_DATA_INFO instance the caller holds (NoInstance before construction)
    args,     \* the arguments of the call in progress / last call
    call      \* what the last call did: events, requests, log, outcome, error, result

vars == <<module, self, args, call>>

----------------------------------------------------------------------------
(* Python values *)

None == [t |-> "none"]

PyStr(s) == [t |-> "str", s |-> s]

PyInt(i) == [t |-> "int", i |-> i]

PyBool(b) == [t |-> "bool", b |-> b]

\* A presence test in place of the truth test: `if start_date is not None:`.
TruthyIsNotNone(v) == v.t # "none"

\* Python truth value testing, as used by `if start_date:` (None, "", 0 and
\* False are falsy).
Truthy(v) ==
    CASE v.t = "none" -> FALSE
      [] v.t = "str"  -> Len(v.s) > 0
      [] v.t = "int"  -> v.i # 0
      [] v.t = "bool" -> v.b

Digit(d) == <<"0","1","2","3","4","5","6","7","8","9">>[d + 1]

RECURSIVE NatToStr(_)
NatToStr(n) == IF n < 10 THEN <<Digit(n)>> ELSE NatToStr(n \div 10) \o <<Digit(n % 10)>>

\* What an f-string replacement field {v} renders for a value.
Format(v) ==
    CASE v.t = "none" -> <<"N","o","n","e">>
      [] v.t = "str"  -> v.s
      [] v.t = "int"  -> IF v.i < 0 THEN <<"-">> \o NatToStr(0 - v.i) ELSE NatToStr(v.i)
      [] v.t = "bool" -> IF v.b THEN <<"T","r","u","e">> ELSE <<"F","a","l","s","e">>

\* str.rsplit(sep, 1) in place of split: the pieces around the last sep.
Split1Last(s, sep) ==
    IF \E i \in 1..Len(s) : s[i] = sep
    THEN LET i == CHOOSE k \in 1..Len(s) : s[k] = sep /\ \A j \in (k+1)..Len(s) : s[j] # sep
         IN  <<SubSeq(s, 1, i-1), SubSeq(s, i+1, Len(s))>>
    ELSE <<s>>

\* str.split(sep, 1): the list of at most two pieces around the first sep.
Split1(s, sep) ==
    IF \E i \in 1..Len(s) : s[i] = sep
    THEN LET i == CHOOSE k \in 1..Len(s) : s[k] = sep /\ \A j \in 1..(k-1) : s[j] # sep
         IN  <<SubSeq(s, 1, i-1), SubSeq(s, i+1, Len(s))>>
    ELSE <<s>>

----------------------------------------------------------------------------
(* Program constants *)

API_ENDPOINT ==
    <<"h","t","t","p","s",":","/","/","s","d","w","-","w","s","r","e","s","t",".","e","c","b",".","e","u","r","o","p","a",".","e","u">>

\* The names of the optional parameters of _build_url, in declaration order.
ParamNames ==
    <<"start_date", "end_date", "detail", "update_after",
      "first_n_observations", "last_n_observations", "include_history">>

\* The query-string term prefix that _build_url writes for each parameter.
TermPrefix(name) ==
    CASE name = "start_date"           -> <<"&","s","t","a","r","t","P","e","r","i","o","d","=">>
      [] name = "end_date"             -> <<"&","e","n","d","P","e","r","i","o","d","=">>
      [] name = "detail"               -> <<"&","d","e","t","a","i","l","=">>
      [] name = "update_after"         -> <<"&","u","p","d","a","t","e","d","A","f","t","e","r","=">>
      [] name = "first_n_observations" -> <<"&","f","i","r","s","t","N","O","b","s","e","r","v","a","t","i","o","n","s","=">>
      [] name = "last_n_observations"  -> <<"&","l","a","s","t","N","O","b","s","e","r","v","a","t","i","o","n","s","=">>
      [] name = "include_history"      -> <<"&","i","n","c","l","u","d","e","H","i","s","t","o","r","y","=">>

\* An exception is its type, the fixed texts and numbers its message is
\* formatted from, in order, and the caller-supplied or server-supplied texts
\* (identifiers, URL) the message quotes, in order.
NoError == [type |-> "none", parts |-> <<>>, quoted |-> <<>>]

\* The message of exception e embeds the text x as one of its pieces.
Embeds(e, x) == \E i \in 1..Len(e.parts) : e.parts[i] = x

----------------------------------------------------------------------------
(* _build_url *)

\* One `if p: req_url += f'&name={p}'` statement.
AppendTerm(req_url, name, v) ==
    IF Truthy(v) THEN req_url \o TermPrefix(name) \o Format(v) ELSE req_url

\* The base URL of line 647.
BaseUrl(api_endpoint, data_flow, series_key_rest) ==
    api_endpoint
      \o <<"/","s","e","r","v","i","c","e","/","d","a","t","a","/">>
      \o data_flow \o <<"/">> \o series_key_rest
      \o <<"?","f","o","r","m","a","t","=","c","s","v","d","a","t","a">>

\* _build_url with the statements of lines 649-655 in another order: the
\* includeHistory term is appended first.
_build_url_reordered(api_endpoint, series_key, p) ==
    LET pieces == Split1(series_key, ".") IN
    IF Len(pieces) # 2
    THEN [raised |-> TRUE, url |-> <<>>,
          error |-> [type |-> "ValueError", quoted |-> <<>>,
                     parts |-> <<"not enough values to unpack (expected 2, got 1)">>]]
    ELSE LET u0 == BaseUrl(api_endpoint, pieces[1], pieces[2])
             u1 == AppendTerm(u0, "include_history", p["include_history"])
             u2 == AppendTerm(u1, "start_date", p["start_date"])
             u3 == AppendTerm(u2, "end_date", p["end_date"])
             u4 == AppendTerm(u3, "detail", p["detail"])
             u5 == AppendTerm(u4, "update_after", p["update_after"])
             u6 == AppendTerm(u5, "first_n_observations", p["first_n_observations"])
             u7 == AppendTerm(u6, "last_n_observations", p["last_n_observations"])
         IN  [raised |-> FALSE, url |-> u7, error |-> NoError]

\* _build_url taking a key without "." as a dataflow with an empty rest
\* instead of raising.
_build_url_padded(api_endpoint, series_key, p) ==
    LET pieces == Split1(series_key, ".")
        rest == IF Len(pieces) = 2 THEN pieces[2] ELSE <<>>
        u0 == BaseUrl(api_endpoint, pieces[1], rest)
        u1 == AppendTerm(u0, "start_date", p["start_date"])
        u2 == AppendTerm(u1, "end_date", p["end_date"])
        u3 == AppendTerm(u2, "detail", p["detail"])
        u4 == AppendTerm(u3, "update_after", p["update_after"])
        u5 == AppendTerm(u4, "first_n_observations", p["first_n_observations"])
        u6 == AppendTerm(u5, "last_n_observations", p["last_n_observations"])
        u7 == AppendTerm(u6, "include_history", p["include_history"])
    IN  [raised |-> FALSE, url |-> u7, error |-> NoError]

\* _build_url(self, series_key, ...): p maps each parameter name to its value.
\* The tuple unpacking of line 646 raises ValueError when split yields one piece.
_build_url(api_endpoint, series_key, p) ==
    LET pieces == Split1(series_key, ".") IN
    IF Len(pieces) # 2
    THEN [raised |-> TRUE, url |-> <<>>,
          error |-> [type |-> "ValueError", quoted |-> <<>>,
                     parts |-> <<"not enough values to unpack (expected 2, got 1)">>]]
    ELSE LET u0 == BaseUrl(api_endpoint, pieces[1], pieces[2])
             u1 == AppendTerm(u0, "start_date", p["start_date"])
             u2 == AppendTerm(u1, "end_date", p["end_date"])
             u3 == AppendTerm(u2, "detail", p["detail"])
             u4 == AppendTerm(u3, "update_after", p["update_after"])
             u5 == AppendTerm(u4, "first_n_observations", p["first_n_observations"])
             u6 == AppendTerm(u5, "last_n_observations", p["last_n_observations"])
             u7 == AppendTerm(u6, "include_history", p["include_history"])
         IN  [raised |-> FALSE, url |-> u7, error |-> NoError]

----------------------------------------------------------------------------
(* Responses and the validator __connection_handler *)

\* The table of the validator with the entry for 404 left out.
errors_msgs_no404 ==
    [c \in {304, 400, 406, 500, 501, 503} |->
        CASE c = 304 -> "No changes. There have been no changes to the data since the timestamp supplied in the If-Modified-Since header."
          [] c = 400 -> "Syntax error. Syntactic or semantic issue with the parameters supplied."
          [] c = 406 -> "Not Acceptable."
          [] c = 500 -> "Internal Server Error. Feel free to try again later or to contact the support hotline https://ecb-registration.escb.eu/statistical-information."
          [] c = 501 -> "Not implemented."
          [] c = 503 -> "Service unavailable: Web service is temporarily unavailable."]

\* The table of the validator, lines 64-72.
errors_msgs ==
    [c \in {304, 400, 404, 406, 500, 501, 503} |->
        CASE c = 304 -> "No changes. There have been no changes to the data since the timestamp supplied in the If-Modified-Since header."
          [] c = 400 -> "Syntax error. Syntactic or semantic issue with the parameters supplied."
          [] c = 404 -> "No results found. There are no results matching the query."
          [] c = 406 -> "Not Acceptable."
          [] c = 500 -> "Internal Server Error. Feel free to try again later or to contact the support hotline https://ecb-registration.escb.eu/statistical-information."
          [] c = 501 -> "Not implemented."
          [] c = 503 -> "Service unavailable: Web service is temporarily unavailable."]

\* The "message" entries of config.ERROR_CODES_DICT.
ERROR_CODES_DICT ==
    [c \in {400, 401, 410, 403, 404, 405, 406, 409, 415, 500, 502, 503, 504} |->
        CASE c = 400 -> "Bad request"
          [] c = 401 -> "Failed to authenticate, check your authenticat..."
          [] c = 410 -> "Unauthorized"
          [] c = 403 -> "Forbidden"
          [] c = 404 -> "Not Found"
          [] c = 405 -> "Method not allowed"
          [] c = 406 -> "Not acceptable"
          [] c = 409 -> "Conflict"
          [] c = 415 -> "Unsopprted Media Type"
          [] c = 500 -> "Internal Server Error"
          [] c = 502 -> "Bad Gateway"
          [] c = 503 -> "Service Unavailable"
          [] c = 504 -> "Gateway Timeout"]

\* The status codes the remote service answers with in the model: 200, every
\* code of the two tables, and codes of neither table below and above 400.
StatusCodes ==
    {200, 201, 204, 302, 418} \cup DOMAIN errors_msgs \cup DOMAIN ERROR_CODES_DICT

\* The reason phrases the remote service sends with a status line.
Reasons == {"", "Forbidden"}

\* raise_for_status raising for server errors only.
raise_for_status_5xx(r) ==
    IF r.status_code >= 500 /\ r.status_code < 600
    THEN [type |-> "HTTPError", quoted |-> <<r.url>>,
          parts |-> <<ToString(r.status_code), " Server Error: ", r.reason, " for url: ">>]
    ELSE NoError

\* requests.Response.raise_for_status(): raises HTTPError for 400..599 with
\* the message "<code> Client|Server Error: <reason> for url: <url>", and
\* returns normally for every other code.
raise_for_status(r) ==
    IF r.status_code >= 400 /\ r.status_code < 500
    THEN [type |-> "HTTPError", quoted |-> <<r.url>>,
          parts |-> <<ToString(r.status_code), " Client Error: ", r.reason, " for url: ">>]
    ELSE IF r.status_code >= 500 /\ r.status_code < 600
    THEN [type |-> "HTTPError", quoted |-> <<r.url>>,
          parts |-> <<ToString(r.status_code), " Server Error: ", r.reason, " for url: ">>]
    ELSE NoError

\* dir(response): the attribute names the capability check of line 56 sees.
Dir(response) ==
    IF response.kind = "sdmx.Client" THEN {"dataflow", "categoryscheme", "get"}
    ELSE {"status_code", "url", "headers", "text", "content", "raise_for_status"}

\* The validator without its branch for status 200 (line 73 testing another
\* code): a 200 response is treated like any status outside the table.
__connection_handler_no200(response, msg) ==
    LET connector_response == IF "dataflow" \in Dir(response) THEN msg.response ELSE response
        status_code == connector_response.status_code
    IN  IF status_code \in DOMAIN errors_msgs
        THEN [error |-> [type |-> "Exception", quoted |-> <<>>,
                         parts |-> <<"Request Error Code: ", ToString(status_code), " - ",
                                     errors_msgs[status_code]>>],
              status_code |-> status_code,
              log |-> <<>>]
        ELSE [error |-> raise_for_status(connector_response),
              status_code |-> status_code,
              log |-> <<[level |-> "error", url |-> connector_response.url, code |-> ""],
                        [level |-> "error", url |-> <<>>, code |-> ToString(status_code)]>>]

\* The argument for msg when the response is a raw HTTP response.
NoMessage == [response |-> None]

\* __connection_handler(response).  msg is what response.dataflow() returns
\* when response is the metadata client (line 57); it is not looked at for a
\* raw HTTP response.  The result is the exception raised (NoError when the
\* validator returns), the log entries written and the status it judged.
__connection_handler(response, msg) ==
    LET connector_response == IF "dataflow" \in Dir(response) THEN msg.response ELSE response
        status_code == connector_response.status_code
    IN  IF status_code = 200
        THEN [error |-> NoError, status_code |-> status_code,
              log |-> <<[level |-> "info", url |-> connector_response.url, code |-> ""]>>]
        ELSE IF status_code \in DOMAIN errors_msgs
        THEN [error |-> [type |-> "Exception", quoted |-> <<>>,
                         parts |-> <<"Request Error Code: ", ToString(status_code), " - ",
                                     errors_msgs[status_code]>>],
              status_code |-> status_code,
              log |-> <<>>]
        ELSE [error |-> raise_for_status(connector_response),
              status_code |-> status_code,
              log |-> <<[level |-> "error", url |-> connector_response.url, code |-> ""],
                        [level |-> "error", url |-> <<>>, code |-> ToString(status_code)]>>]

\* The status codes the metadata service answers a structure request with.
MetadataStatusCodes == {200, 500}

----------------------------------------------------------------------------
(* The instance, the record of a call, and the remote service *)

\* An endpoint other than the default one.
OtherEndpoint == <<"h","t","t","p",":","/","/","h">>

\* Constructor arguments the caller may pass: the defaults, and the proxy
\* settings of tests/local.py with another endpoint.
ConstructorArgs ==
    { [proxies |-> None, verify |-> None, api_endpoint |-> API_ENDPOINT],
      [proxies |-> [t |-> "dict", https |-> "https://your_proxy:port"],
       verify |-> PyBool(TRUE), api_endpoint |-> OtherEndpoint] }

\* An attribute that has not been assigned.
Unset == [t |-> "unset"]

\* The attributes of an ECB_DATA_INFO object before __init__ has assigned any.
NoInstance ==
    [proxies |-> Unset, verify |-> Unset, api_endpoint |-> Unset,
     ecb_connection |-> Unset, all_dataflows |-> Unset]

\* No call has happened yet.
NoCall ==
    [op |-> "none", events |-> <<>>, requests |-> <<>>, log |-> <<>>,
     outcome |-> "none", error |-> NoError, result |-> None, obj |-> NoInstance,
     validated |-> <<>>]

\* What a finished call did: the events in program order, the requests sent,
\* the log entries, the exception that left it (NoError when it returned),
\* the value returned, the object it worked on as the call left it, and the
\* status codes the validator judged.
Call(op, events, requests, log, error, result, obj, validated) ==
    [op |-> op, events |-> events, requests |-> requests, log |-> log,
     outcome |-> IF error = NoError THEN "returned" ELSE "raised",
     error |-> error, result |-> IF error = NoError THEN result ELSE None,
     obj |-> obj, validated |-> validated]

\* sdmx.Client("ECB", proxies=proxies, verify=verify): the handle keeps the
\* transport settings and uses them for every request it sends.
Client(proxies, verify) ==
    [t |-> "client", kind |-> "sdmx.Client", source |-> "ECB",
     proxies |-> proxies, verify |-> verify]

\* A request the metadata client sends for a resource; the library builds the
\* URL and chooses the timeout.
ClientRequest(client, resource) ==
    [via |-> "sdmx.Client", resource |-> resource, url |-> <<>>, headers |-> "",
     timeout |-> None, proxies |-> client.proxies, verify |-> client.verify]

\* requests.get(req_url, headers=..., timeout=90): neither call site passes
\* proxies= or verify=.
GetRequest(req_url, headers) ==
    [via |-> "requests.get", resource |-> "data", url |-> req_url, headers |-> headers,
     timeout |-> PyInt(90), proxies |-> None, verify |-> None]

\* The HTTP response the remote service gives: the status line and the
\* effective URL; the body is kept beside it.
Response(status_code, reason, url) ==
    [kind |-> "requests.Response", status_code |-> status_code, reason |-> reason, url |-> url]

\* The effective URL of a response to the metadata client.
MetadataUrl == <<"E","C","B","/","d","a","t","a","f","l","o","w">>

\* Dataflow listings the remote service publishes: identifier and label.
DataflowListings ==
    { <<[id |-> <<"E","X","R">>, label |-> <<"E","x","c","h">>],
        [id |-> <<"F","M">>,     label |-> <<"M","k","t">>]>>,
      <<[id |-> <<"F","M">>,     label |-> <<"e","x","c","h">>]>> }

\* sdmx.to_pandas of a dataflow mapping: a Series of labels indexed by
\* identifier.
to_pandas_series(items) ==
    [t |-> "series", index |-> [i \in 1..Len(items) |-> items[i].id],
     values |-> [i \in 1..Len(items) |-> items[i].label]]

----------------------------------------------------------------------------
(* Construction: __init__ and __ecb_connect *)

\* __ecb_connect(self, proxies, verify) on the object obj.  msg1 is what the
\* metadata service answers to the dataflow request of the validator, msg2
\* what it answers to the dataflow request of line 116.
__ecb_connect(obj, proxies, verify, msg1, msg2) ==
    LET ecb_connection == Client(proxies, verify)
        v == __connection_handler(ecb_connection, msg1)
        req == ClientRequest(ecb_connection, "dataflow")
    IN  IF v.error # NoError
        THEN [obj |-> obj, error |-> v.error, log |-> v.log,
              requests |-> <<req>>, validated |-> <<v.status_code>>,
              events |-> <<"open_handle", "request", "response", "validate", "raise">>]
        ELSE [obj |-> [obj EXCEPT !.ecb_connection = ecb_connection,
                                  !.all_dataflows = to_pandas_series(msg2.dataflow)],
              error |-> NoError, log |-> v.log,
              requests |-> <<req, req>>, validated |-> <<v.status_code>>,
              events |-> <<"open_handle", "request", "response", "validate",
                           "store_handle", "request", "response", "store_listing">>]

\* ECB_DATA_INFO.__init__(proxies, verify, api_endpoint).
__init__(proxies, verify, api_endpoint, msg1, msg2) ==
    LET obj == [NoInstance EXCEPT !.proxies = proxies, !.verify = verify,
                                  !.api_endpoint = PyStr(api_endpoint)]
        c == __ecb_connect(obj, proxies, verify, msg1, msg2)
    IN  Call("__init__", c.events \o (IF c.error = NoError THEN <<"return">> ELSE <<>>),
             c.requests, c.log, c.error, None, c.obj, c.validated)

\* What the metadata service may answer to the dataflow listing request of
\* the validator: the status line is all the validator reads of it.
ValidatedAnswers ==
    { [response |-> Response(s, r, MetadataUrl), dataflow |-> <<>>] :
        s \in StatusCodes, r \in Reasons }

\* What the metadata service may answer to the dataflow listing request of
\* line 116: the listing is all that is read of it.
ListingAnswers ==
    { [response |-> Response(200, "", MetadataUrl), dataflow |-> l] : l \in DataflowListings }

\* Nothing answers the request of line 116 when the validator raised and the
\* request was never sent.
NoListing == [response |-> Response(0, "", MetadataUrl), dataflow |-> <<>>]

ListingAnswersAfter(msg1) ==
    IF __connection_handler(Client(None, None), msg1).error = NoError
    THEN ListingAnswers ELSE {NoListing}

\* Line 734, executed when the module is imported: ecb_data_info =
\* ECB_DATA_INFO().  An exception leaves the import failed and no name bound.
ModuleLoad ==
    /\ module = "unloaded"
    /\ \E msg1 \in ValidatedAnswers :
       \E msg2 \in ListingAnswersAfter(msg1) :
         LET c == __init__(None, None, API_ENDPOINT, msg1, msg2) IN
         /\ args' = [op |-> "__init__", proxies |-> None, verify |-> None,
                     api_endpoint |-> API_ENDPOINT, status_code |-> msg1.response.status_code]
         /\ call' = c
         /\ module' = IF c.outcome = "returned" THEN "loaded" ELSE "import_failed"
         /\ self' = IF c.outcome = "returned" THEN c.obj ELSE self

\* The caller constructs an instance of its own, as tests/local.py does when
\* PROXY_SETTINGS is set.  The class can be imported only when the module
\* loaded; an exception leaves the caller with the instance it had.
Construct ==
    /\ module = "loaded"
    /\ \E a \in ConstructorArgs, msg1 \in ValidatedAnswers :
       \E msg2 \in ListingAnswersAfter(msg1) :
         LET c == __init__(a.proxies, a.verify, a.api_endpoint, msg1, msg2) IN
         /\ args' = [op |-> "__init__", proxies |-> a.proxies, verify |-> a.verify,
                     api_endpoint |-> a.api_endpoint,
                     status_code |-> msg1.response.status_code]
         /\ call' = c
         /\ self' = IF c.outcome = "returned" THEN c.obj ELSE self
         /\ UNCHANGED module

----------------------------------------------------------------------------
(* Discovery operations that go through the metadata client *)

\* The structure definition the metadata service publishes for a dataflow.
Structure ==
    [dimensions |-> <<[id |-> <<"F","R","E","Q">>, enumerated |-> <<"A","M">>],
                      [id |-> <<"T","I","M","E">>, enumerated |-> <<>>]>>,
     attributes |-> <<<<"T","I","T","L","E">>>>,
     measures   |-> <<<<"O","B","S">>>>]

\* The structure definition of a dataflow that has no time dimension.
FlatStructure ==
    [dimensions |-> <<[id |-> <<"F","R","E","Q">>, enumerated |-> <<"A">>]>>,
     attributes |-> <<<<"T","I","T","L","E">>>>,
     measures   |-> <<<<"O","B","S">>>>]

Structures == {Structure, FlatStructure}

\* What the metadata service may answer to ecb_connection.dataflow(dataflow):
\* the HTTP response, and whether the message holds a definition and a
\* constraint set for the identifier asked for.
DataflowAnswers ==
    { [response |-> Response(s, "", MetadataUrl), found |-> f, constrained |-> k,
       structure |-> d] :
        s \in MetadataStatusCodes, f \in BOOLEAN, k \in BOOLEAN, d \in Structures }

\* The answers as the operations that read the definition see them: they
\* never look at the constraint set.
DefinitionAnswers == { ans \in DataflowAnswers : ans.constrained }

\* The ValueError of lines 180, 220, 299 and 394.
NoDefinitionError(dataflow) ==
    [type |-> "ValueError", parts |-> <<"No DataflowDefinition found for dataflow: ">>,
     quoted |-> <<dataflow>>]

\* sdmx.to_pandas of a component list: the list of the component names.
ComponentIds(components) == [i \in 1..Len(components) |-> components[i].id]

\* The shared part handing back an empty list when the message holds no
\* definition for the identifier.
StructureCallEmpty(op, obj, dataflow, ans, result) ==
    Call(op, <<"request", "response", "normalize", "return">>,
         <<ClientRequest(obj.ecb_connection, "dataflow")>>, <<>>, NoError,
         IF ans.found THEN result ELSE [t |-> "list", items |-> <<>>], obj, <<>>)

\* The part the four structure operations share (lines 176-185): request the
\* dataflow message and pick the definition; the response is not validated.
StructureCall(op, obj, dataflow, ans, result) ==
    LET req == ClientRequest(obj.ecb_connection, "dataflow")
    IN  IF ~ans.found
        THEN Call(op, <<"request", "response", "raise">>, <<req>>, <<>>,
                  NoDefinitionError(dataflow), None, obj, <<>>)
        ELSE Call(op, <<"request", "response", "normalize", "return">>, <<req>>, <<>>,
                  NoError, result, obj, <<>>)

search_dataflow_attributes(obj, dataflow, ans) ==
    StructureCall("search_dataflow_attributes", obj, dataflow, ans,
                  [t |-> "list", items |-> ans.structure.attributes])

\* search_dataflow_dimensions listing the dimensions of the time-series
\* structure whatever structure the message holds.
search_dataflow_dimensions_fixed(obj, dataflow, ans) ==
    StructureCall("search_dataflow_dimensions", obj, dataflow, ans,
                  [t |-> "list", items |-> ComponentIds(Structure.dimensions)])

search_dataflow_dimensions(obj, dataflow, ans) ==
    StructureCall("search_dataflow_dimensions", obj, dataflow, ans,
                  [t |-> "list", items |-> ComponentIds(ans.structure.dimensions)])

search_dataflow_measures(obj, dataflow, ans) ==
    StructureCall("search_dataflow_measures", obj, dataflow, ans,
                  [t |-> "list", items |-> ans.structure.measures])

\* search_dataflow_dimension_values going to the dimension's values without
\* looking the name up in the list of dimensions first.
search_dataflow_dimension_values_unchecked(obj, dataflow, dimension, ans) ==
    LET req == ClientRequest(obj.ecb_connection, "dataflow")
        dimensions_list == ComponentIds(ans.structure.dimensions)
        op == "search_dataflow_dimension_values"
        known == \E i \in 1..Len(dimensions_list) : dimensions_list[i] = dimension
    IN  IF ~known
        THEN Call(op, <<"request", "response", "lookup_values", "raise">>, <<req>>, <<>>,
                  [type |-> "KeyError", parts |-> <<>>, quoted |-> <<dimension>>],
                  None, obj, <<>>)
        ELSE LET d == CHOOSE i \in 1..Len(dimensions_list) : dimensions_list[i] = dimension
             IN  Call(op, <<"request", "response", "lookup_values", "normalize", "return">>,
                      <<req>>, <<>>, NoError,
                      [t |-> "list", items |-> ans.structure.dimensions[d].enumerated], obj, <<>>)

\* search_dataflow_dimension_values(dataflow, dimension), lines 293-320.
search_dataflow_dimension_values(obj, dataflow, dimension, ans) ==
    LET req == ClientRequest(obj.ecb_connection, "dataflow")
        dimensions_list == ComponentIds(ans.structure.dimensions)
        op == "search_dataflow_dimension_values"
    IN  IF ~ans.found
        THEN Call(op, <<"request", "response", "raise">>, <<req>>, <<>>,
                  NoDefinitionError(dataflow), None, obj, <<>>)
        ELSE IF ~(\E i \in 1..Len(dimensions_list) : dimensions_list[i] = dimension)
        THEN Call(op, <<"request", "response", "normalize", "raise">>, <<req>>, <<>>,
                  [type |-> "ValueError",
                   parts |-> <<"Dimension '", "' not found in dataflow: ">>,
                   quoted |-> <<dimension, dataflow>>],
                  None, obj, <<>>)
        ELSE LET d == CHOOSE i \in 1..Len(dimensions_list) : dimensions_list[i] = dimension
             IN  Call(op, <<"request", "response", "normalize", "lookup_values", "normalize",
                            "return">>,
                      <<req>>, <<>>, NoError,
                      [t |-> "list", items |-> ans.structure.dimensions[d].enumerated], obj, <<>>)

\* search_dataflow_constraints(dataflow), lines 362-365: an absent constraint
\* set normalizes to nothing.
search_dataflow_constraints(obj, dataflow, ans) ==
    Call("search_dataflow_constraints", <<"request", "response", "normalize", "return">>,
         <<ClientRequest(obj.ecb_connection, "dataflow")>>, <<>>, NoError,
         IF ans.constrained
         THEN [t |-> "list", items |-> ComponentIds(ans.structure.dimensions)]
         ELSE None,
         obj, <<>>)

\* all_category_schemes(), lines 521-522.
all_category_schemes(obj, ans) ==
    Call("all_category_schemes", <<"request", "response", "normalize", "return">>,
         <<ClientRequest(obj.ecb_connection, "categoryscheme")>>, <<>>, NoError,
         to_pandas_series(ans.category_scheme), obj, <<>>)

----------------------------------------------------------------------------
(* Tables: pandas.read_csv, to_datetime, sort_index *)

MaxRows == 2

\* Time periods the service reports, as the text of the TIME_PERIOD column.
TimePeriods ==
    { <<"2","0","1","9","-","1","2">>, <<"2","0","2","0","-","0","1">> }

\* CSV bodies of a data response with a TIME_PERIOD column: the header and up
\* to MaxRows rows; OBS_VALUE tells the rows apart.
TimeBodies ==
    UNION { { [columns |-> <<"TIME_PERIOD", "OBS_VALUE">>,
               rows |-> [i \in 1..n |-> [TIME_PERIOD |-> d[i], OBS_VALUE |-> i]]] :
              d \in [1..n -> TimePeriods] } : n \in 0..MaxRows }

\* CSV bodies without a TIME_PERIOD column (detail=serieskeysonly).
KeyOnlyBodies ==
    { [columns |-> <<"KEY">>, rows |-> [i \in 1..n |-> [KEY |-> i]]] : n \in 0..MaxRows }

DataBodies == TimeBodies \cup KeyOnlyBodies

\* The body of a response that carries no CSV.
NoBody == [columns |-> <<>>, rows |-> <<>>]

\* What the data service may answer to a GET: an error status or 304 comes
\* without a CSV body, any other status with one of the bodies.
Answers(bodies) ==
    { [status_code |-> s, reason |-> r, body |-> b] :
        s \in { c \in StatusCodes : c < 400 /\ c # 304 }, r \in {""}, b \in bodies }
    \cup
    { [status_code |-> s, reason |-> r, body |-> NoBody] :
        s \in { c \in StatusCodes : c >= 400 \/ c = 304 }, r \in Reasons }

\* Nothing answers when no request is sent.
NoAnswer == [status_code |-> 0, reason |-> "", body |-> NoBody]

\* pandas.read_csv: the rows under a fresh RangeIndex 0..n-1.
read_csv(body) ==
    [t |-> "table", index_name |-> "", index |-> [i \in 1..Len(body.rows) |-> i - 1],
     columns |-> body.columns, rows |-> body.rows]

DigitValue(c) == CHOOSE d \in 0..9 : Digit(d) = c

RECURSIVE ParseNat(_)
ParseNat(s) ==
    IF Len(s) = 0 THEN 0
    ELSE 10 * ParseNat(SubSeq(s, 1, Len(s) - 1)) + DigitValue(s[Len(s)])

\* pandas.to_datetime of a "YYYY-MM" text: the month on the time line.
to_datetime(s) == 12 * ParseNat(SubSeq(s, 1, 4)) + ParseNat(SubSeq(s, 6, 7)) - 1

\* Lines 727-729: rename TIME_PERIOD to Date, make it the index, parse it.
DateIndexed(df) ==
    [t |-> "table", index_name |-> "Date",
     index |-> [i \in 1..Len(df.rows) |-> to_datetime(df.rows[i].TIME_PERIOD)],
     columns |-> SelectSeq(df.columns, LAMBDA c : c # "TIME_PERIOD"),
     rows |-> [i \in 1..Len(df.rows) |->
                 [f \in DOMAIN df.rows[i] \ {"TIME_PERIOD"} |-> df.rows[i][f]]]]

HasColumn(df, name) == \E i \in 1..Len(df.columns) : df.columns[i] = name

Permutations1(n) == { f \in [1..n -> 1..n] : \A i, j \in 1..n : f[i] = f[j] => i = j }

Monotonic(index, ascending) ==
    \A i \in 1..(Len(index) - 1) :
        IF ascending THEN index[i] <= index[i+1] ELSE index[i] >= index[i+1]

\* The row orders DataFrame.sort_index(ascending=...) may produce: the table
\* as it is when the index is already monotonic in the direction asked for,
\* otherwise any order that sorts the index (the default sort kind is
\* quicksort, which fixes no order among equal index values).
SortOrders(index, ascending) ==
    IF Monotonic(index, ascending)
    THEN { [i \in 1..Len(index) |-> i] }
    ELSE { f \in Permutations1(Len(index)) :
             Monotonic([i \in 1..Len(index) |-> index[f[i]]], ascending) }

\* A sort_index that hands the table back in the order it came in.
sort_index_kept(df, order) == df

\* df.sort_index(ascending=ascending) with the row order chosen.
sort_index(df, order) ==
    [df EXCEPT !.index = [i \in 1..Len(df.index) |-> df.index[order[i]]],
               !.rows  = [i \in 1..Len(df.rows)  |-> df.rows[order[i]]]]

\* The table get_ecb_data sorts: lines 725-729.
Parsed(body) ==
    LET df == read_csv(body) IN
    IF HasColumn(df, "TIME_PERIOD") THEN DateIndexed(df) ELSE df

----------------------------------------------------------------------------
(* Operations that issue a direct HTTP GET *)

\* Whether dataflow is a label of the index of the cached listing (line 439).
InIndex(series, dataflow) == \E i \in 1..Len(series.index) : series.index[i] = dataflow

\* The URL prefix of line 440.
DataApiUrl ==
    <<"h","t","t","p","s",":","/","/","d","a","t","a","-","a","p","i",".","e","c","b",".",
      "e","u","r","o","p","a",".","e","u","/","s","e","r","v","i","c","e","/","d","a","t","a","/">>

\* The GET and the parsing without the call of the validator between them.
FetchCallUnvalidated(op, obj, head, req, status_code, reason, table) ==
    Call(op, head \o <<"request", "response", "parse", "return">>, <<req>>, <<>>,
         NoError, table, obj, <<>>)

\* The shared part sending the GET a second time when the validator raised.
FetchCallRetrying(op, obj, head, req, status_code, reason, table) ==
    LET response == Response(status_code, reason, req.url)
        v == __connection_handler(response, NoMessage)
    IN  IF v.error # NoError
        THEN Call(op, head \o <<"request", "response", "validate", "request", "response",
                               "validate", "raise">>,
                  <<req, req>>, v.log \o v.log, v.error, None, obj,
                  <<v.status_code, v.status_code>>)
        ELSE Call(op, head \o <<"request", "response", "validate", "parse", "return">>,
                  <<req>>, v.log, NoError, table, obj, <<v.status_code>>)

\* The part get_ecb_data and all_data_keys_for_dataflow share: send the GET,
\* hand the response to the validator, and parse the body when the validator
\* returns.  head holds the events before the request, table the parsed body.
FetchCall(op, obj, head, req, status_code, reason, table) ==
    LET response == Response(status_code, reason, req.url)
        v == __connection_handler(response, NoMessage)
    IN  IF v.error # NoError
        THEN Call(op, head \o <<"request", "response", "validate", "raise">>, <<req>>, v.log,
                  v.error, None, obj, <<v.status_code>>)
        ELSE Call(op, head \o <<"request", "response", "validate", "parse", "return">>,
                  <<req>>, v.log, NoError, table, obj, <<v.status_code>>)

\* all_data_keys_for_dataflow sending its GET without looking the identifier
\* up in the cached listing.
all_data_keys_for_dataflow_unchecked(obj, dataflow, status_code, reason, body) ==
    FetchCall("all_data_keys_for_dataflow", obj, <<>>,
              GetRequest(DataApiUrl \o dataflow, "Accept: text/csv"),
              status_code, reason, read_csv(body))

\* all_data_keys_for_dataflow(dataflow), lines 439-449.
all_data_keys_for_dataflow(obj, dataflow, status_code, reason, body) ==
    IF InIndex(obj.all_dataflows, dataflow)
    THEN FetchCall("all_data_keys_for_dataflow", obj, <<>>,
                   GetRequest(DataApiUrl \o dataflow, "Accept: text/csv"),
                   status_code, reason, read_csv(body))
    ELSE Call("all_data_keys_for_dataflow", <<"log_error", "return">>, <<>>,
              <<[level |-> "error", url |-> <<>>, code |-> ""]>>, NoError, None, obj, <<>>)

\* get_ecb_data(series_key, ..., ascending), lines 713-730.  p holds the seven
\* optional parameters; order is the row order sort_index produced.
get_ecb_data(obj, series_key, p, ascending, status_code, reason, body, order) ==
    IF series_key = None
    THEN Call("get_ecb_data", <<"return">>, <<>>, <<>>, NoError, None, obj, <<>>)
    ELSE LET b == _build_url(obj.api_endpoint.s, series_key.s, p) IN
         IF b.raised
         THEN Call("get_ecb_data", <<"build_url", "raise">>, <<>>, <<>>, b.error, None, obj, <<>>)
         ELSE FetchCall("get_ecb_data", obj, <<"build_url">>, GetRequest(b.url, ""),
                        status_code, reason, sort_index(Parsed(body), order))

----------------------------------------------------------------------------
(* search_dataflows *)

UpperCase == <<"A","B","C","D","E","F","G","H","I","J","K","L","M",
               "N","O","P","Q","R","S","T","U","V","W","X","Y","Z">>

LowerCase == <<"a","b","c","d","e","f","g","h","i","j","k","l","m",
               "n","o","p","q","r","s","t","u","v","w","x","y","z">>

LowerChar(c) ==
    IF \E i \in 1..26 : UpperCase[i] = c
    THEN LowerCase[CHOOSE i \in 1..26 : UpperCase[i] = c]
    ELSE c

\* str.lower()
Lower(s) == [i \in 1..Len(s) |-> LowerChar(s[i])]

\* sub in s
Contains(s, sub) ==
    \E i \in 0..(Len(s) - Len(sub)) : SubSeq(s, i + 1, i + Len(sub)) = sub

\* re.compile(key_word): the key word is a regular expression (str.contains
\* has regex=True by default).  Over letters, "." and "(" a pattern fails to
\* compile exactly when it holds a "(", which nothing closes.
Compiles(key_word) == \A i \in 1..Len(key_word) : key_word[i] # "("

\* The pattern matches the text at offset i: "." stands for any one
\* character, a letter for itself, under re.IGNORECASE for itself in either
\* case.
MatchesAt(label, i, key_word, case) ==
    \A j \in 1..Len(key_word) :
        \/ key_word[j] = "."
        \/ IF case THEN key_word[j] = label[i + j]
                   ELSE LowerChar(key_word[j]) = LowerChar(label[i + j])

\* Series.str.contains(key_word, case=case) for one label: re.search of the
\* compiled pattern in the label.
StrContains(label, key_word, case) ==
    \E i \in 0..(Len(label) - Len(key_word)) : MatchesAt(label, i, key_word, case)

\* The positions of the cached listing whose label matches.
Matching(series, key_word, case) ==
    SelectSeq([i \in 1..Len(series.values) |-> i],
              LAMBDA i : StrContains(series.values[i], key_word, case))

\* search_dataflows(key_word, case), line 144: no request is sent.  A key
\* word that is no regular expression makes str.contains raise re.error.
search_dataflows(obj, key_word, case) ==
    LET m == Matching(obj.all_dataflows, key_word, case) IN
    IF ~Compiles(key_word)
    THEN Call("search_dataflows", <<"raise">>, <<>>, <<>>,
              [type |-> "re.error", parts |-> <<"missing ), unterminated subpattern">>,
               quoted |-> <<>>],
              None, obj, <<>>)
    ELSE Call("search_dataflows", <<"return">>, <<>>, <<>>, NoError,
              [t |-> "series", index |-> [i \in 1..Len(m) |-> obj.all_dataflows.index[m[i]]],
               values |-> [i \in 1..Len(m) |-> obj.all_dataflows.values[m[i]]]],
              obj, <<>>)

----------------------------------------------------------------------------
(* search_data_keys_for_dataflow *)

\* Complete titles the series of a dataflow carry: two that differ by letter
\* case only, and a third.
Titles == { <<"E","u","r">>, <<"e","u","r">>, <<"F","x">> }

\* The tables all_data_keys_for_dataflow returns, as the caller hands them
\* on: up to MaxRows series, KEY telling the rows apart.
KeyTables ==
    UNION { { read_csv([columns |-> <<"KEY", "TITLE_COMPL">>,
                        rows |-> [i \in 1..n |-> [KEY |-> i, TITLE_COMPL |-> d[i]]]]) :
              d \in [1..n -> Titles] } : n \in 0..MaxRows }

\* Series.unique(): the distinct values in the order of first appearance.
RECURSIVE Unique(_)
Unique(s) ==
    IF Len(s) = 0 THEN <<>>
    ELSE LET r == Unique(SubSeq(s, 1, Len(s) - 1)) IN
         IF \E i \in 1..Len(r) : r[i] = s[Len(s)] THEN r ELSE Append(r, s[Len(s)])

\* DataFrame.reset_index(drop=True): a fresh RangeIndex over the rows kept.
reset_index(df, rows) ==
    [df EXCEPT !.index = [i \in 1..Len(rows) |-> i - 1], !.rows = rows]

\* search_data_keys_for_dataflow comparing the titles of the rows as they
\* are written with the lower-cased titles found.
search_data_keys_for_dataflow_exact(obj, key_word, df) ==
    LET titles == Unique([i \in 1..Len(df.rows) |-> df.rows[i].TITLE_COMPL])
        title_compl_lower == [i \in 1..Len(titles) |-> Lower(titles[i])]
        key_word_results == SelectSeq(title_compl_lower, LAMBDA title_c : Contains(title_c, key_word))
        isin(x) == \E i \in 1..Len(key_word_results) : key_word_results[i] = x
    IN  Call("search_data_keys_for_dataflow", <<"return">>, <<>>, <<>>, NoError,
             reset_index(df, SelectSeq(df.rows, LAMBDA row : isin(row.TITLE_COMPL))),
             obj, <<>>)

\* search_data_keys_for_dataflow(key_word, all_data_keys_for_dataflow),
\* lines 487-489: the distinct titles are lower-cased, the key word is
\* looked for in them as it was given, and the rows whose lower-cased title
\* is among the titles found are kept.
search_data_keys_for_dataflow(obj, key_word, df) ==
    LET titles == Unique([i \in 1..Len(df.rows) |-> df.rows[i].TITLE_COMPL])
        title_compl_lower == [i \in 1..Len(titles) |-> Lower(titles[i])]
        key_word_results == SelectSeq(title_compl_lower, LAMBDA title_c : Contains(title_c, key_word))
        isin(x) == \E i \in 1..Len(key_word_results) : key_word_results[i] = x
    IN  Call("search_data_keys_for_dataflow", <<"return">>, <<>>, <<>>, NoError,
             reset_index(df, SelectSeq(df.rows, LAMBDA row : isin(Lower(row.TITLE_COMPL)))),
             obj, <<>>)

----------------------------------------------------------------------------
(* Arguments the caller passes, and the calls as actions *)

DataflowArgs == { <<"E","X","R">>, <<"F","M">>, <<"X","X">> }

DimensionArgs == { <<"F","R","E","Q">>, <<"T","I","M","E">>, <<"N","O">> }

KeyWordArgs == { <<"e","x">>, <<"M">>, <<"z">>, <<"x",".","h">>, <<"(">> }

\* Key words for the search in the complete titles: test/local.py's way of
\* writing one (lower case), the same word capitalized and in capitals, and
\* one that no title holds.
TitleKeyWordArgs == { <<"e","u">>, <<"E","u">>, <<"E","U">>, <<"z">> }

SeriesKeyArgs == { None, PyStr(<<"F","M">>), PyStr(<<"F","M",".","M",".","U","2">>) }

\* Every optional parameter left at its default.
AllNone == [n \in {ParamNames[i] : i \in 1..7} |-> None]

\* Parameter combinations: none given, and the one of tests/local.py line 73.
ParamArgs ==
    { AllNone,
      [AllNone EXCEPT !["detail"] = PyStr(<<"s","e","r","i","e","s","k","e","y","s","o","n","l","y">>)] }

\* Category schemes the metadata service publishes.
CategoryAnswers ==
    { [response |-> Response(s, "", MetadataUrl),
       category_scheme |-> <<[id |-> <<"0","1">>, label |-> <<"M","o","n">>]>>] :
        s \in MetadataStatusCodes }

\* search_dataflows reloading the cached listing from the service first.
SearchDataflowsRefreshing ==
    /\ module = "loaded"
    /\ \E key_word \in KeyWordArgs, case \in BOOLEAN, msg \in ListingAnswers :
         LET obj == [self EXCEPT !.all_dataflows = to_pandas_series(msg.dataflow)] IN
         /\ args' = [op |-> "search_dataflows", key_word |-> key_word, case |-> case]
         /\ call' = search_dataflows(obj, key_word, case)
         /\ self' = obj
    /\ UNCHANGED module

SearchDataflows ==
    /\ module = "loaded"
    /\ \E key_word \in KeyWordArgs, case \in BOOLEAN :
         /\ args' = [op |-> "search_dataflows", key_word |-> key_word, case |-> case]
         /\ call' = search_dataflows(self, key_word, case)
    /\ UNCHANGED <<module, self>>

SearchDataflowAttributes ==
    /\ module = "loaded"
    /\ \E dataflow \in DataflowArgs, ans \in DefinitionAnswers :
         /\ args' = [op |-> "search_dataflow_attributes", dataflow |-> dataflow,
                     found |-> ans.found, structure |-> ans.structure]
         /\ call' = search_dataflow_attributes(self, dataflow, ans)
    /\ UNCHANGED <<module, self>>

SearchDataflowDimensions ==
    /\ module = "loaded"
    /\ \E dataflow \in DataflowArgs, ans \in DefinitionAnswers :
         /\ args' = [op |-> "search_dataflow_dimensions", dataflow |-> dataflow,
                     found |-> ans.found, structure |-> ans.structure]
         /\ call' = search_dataflow_dimensions(self, dataflow, ans)
    /\ UNCHANGED <<module, self>>

SearchDataflowDimensionValues ==
    /\ module = "loaded"
    /\ \E dataflow \in DataflowArgs, dimension \in DimensionArgs, ans \in DefinitionAnswers :
         /\ args' = [op |-> "search_dataflow_dimension_values", dataflow |-> dataflow,
                     dimension |-> dimension, found |-> ans.found,
                     structure |-> ans.structure]
         /\ call' = search_dataflow_dimension_values(self, dataflow, dimension, ans)
    /\ UNCHANGED <<module, self>>

SearchDataflowConstraints ==
    /\ module = "loaded"
    /\ \E dataflow \in DataflowArgs, ans \in DataflowAnswers :
         /\ args' = [op |-> "search_dataflow_constraints", dataflow |-> dataflow,
                     found |-> ans.found, structure |-> ans.structure]
         /\ call' = search_dataflow_constraints(self, dataflow, ans)
    /\ UNCHANGED <<module, self>>

SearchDataflowMeasures ==
    /\ module = "loaded"
    /\ \E dataflow \in DataflowArgs, ans \in DefinitionAnswers :
         /\ args' = [op |-> "search_dataflow_measures", dataflow |-> dataflow,
                     found |-> ans.found, structure |-> ans.structure]
         /\ call' = search_dataflow_measures(self, dataflow, ans)
    /\ UNCHANGED <<module, self>>

SearchDataKeysForDataflow ==
    /\ module = "loaded"
    /\ \E key_word \in TitleKeyWordArgs, df \in KeyTables :
         /\ args' = [op |-> "search_data_keys_for_dataflow", key_word |-> key_word,
                     all_data_keys_for_dataflow |-> df]
         /\ call' = search_data_keys_for_dataflow(self, key_word, df)
    /\ UNCHANGED <<module, self>>

AllCategorySchemes ==
    /\ module = "loaded"
    /\ \E ans \in CategoryAnswers :
         /\ args' = [op |-> "all_category_schemes"]
         /\ call' = all_category_schemes(self, ans)
    /\ UNCHANGED <<module, self>>

AllDataKeysForDataflow ==
    /\ module = "loaded"
    /\ \E dataflow \in DataflowArgs :
         \E ans \in IF InIndex(self.all_dataflows, dataflow)
                     THEN Answers(KeyOnlyBodies) ELSE {NoAnswer} :
            /\ args' = [op |-> "all_data_keys_for_dataflow", dataflow |-> dataflow,
                        status_code |-> ans.status_code, body |-> ans.body]
            /\ call' = all_data_keys_for_dataflow(self, dataflow, ans.status_code,
                                                  ans.reason, ans.body)
    /\ UNCHANGED <<module, self>>

GetEcbData ==
    /\ module = "loaded"
    /\ \E series_key \in SeriesKeyArgs, p \in ParamArgs, ascending \in BOOLEAN :
         \E ans \in IF series_key # None /\ Len(Split1(series_key.s, ".")) = 2
                     THEN Answers(DataBodies) ELSE {NoAnswer} :
            \E order \in SortOrders(Parsed(ans.body).index, ascending) :
               /\ args' = [op |-> "get_ecb_data", series_key |-> series_key, p |-> p,
                           ascending |-> ascending, status_code |-> ans.status_code,
                           body |-> ans.body]
               /\ call' = get_ecb_data(self, series_key, p, ascending, ans.status_code,
                                       ans.reason, ans.body, order)
    /\ UNCHANGED <<module, self>>

----------------------------------------------------------------------------
(* The program: import, then any sequence of calls *)

Init ==
    /\ module = "unloaded"
    /\ self = NoInstance
    /\ args = [op |-> "none"]
    /\ call = NoCall

Next ==
    \/ ModuleLoad
    \/ Construct
    \/ SearchDataflows
    \/ SearchDataflowAttributes
    \/ SearchDataflowDimensions
    \/ SearchDataflowDimensionValues
    \/ SearchDataflowConstraints
    \/ SearchDataflowMeasures
    \/ SearchDataKeysForDataflow
    \/ AllCategorySchemes
    \/ AllDataKeysForDataflow
    \/ GetEcbData

Spec == Init /\ [][Next]_vars

----------------------------------------------------------------------------
(* URL building on its own: the inputs are drawn first, then _build_url runs *)

MaxKeyLen == 3

\* The characters of series keys: code characters and the delimiter.
KeyChars == {"F", "M", "."}

\* Every series key text of up to MaxKeyLen characters, with and without a
\* delimiter.
SeriesKeys == UNION { [1..n -> KeyChars] : n \in 1..MaxKeyLen }

\* The series key of tests/local.py, shortened.
SampleKey == <<"F","M",".","M",".","U","2">>

\* The values a caller supplies for each optional parameter: left out (None),
\* a falsy value, and a truthy value.
ParamValues(name) ==
    CASE name = "start_date" ->
           {None, PyStr(<<>>), PyStr(<<"2","0","2","0","-","0","1","-","0","1">>)}
      [] name = "end_date" ->
           {None, PyStr(<<>>), PyStr(<<"2","0","2","4","-","1","0","-","2","3">>)}
      [] name = "detail" ->
           {None, PyStr(<<>>), PyStr(<<"f","u","l","l">>)}
      [] name = "update_after" ->
           {None, PyStr(<<>>), PyStr(<<"2","0","0","9","-","0","5","-","1","5">>)}
      [] name = "first_n_observations" -> {None, PyInt(0), PyInt(12)}
      [] name = "last_n_observations"  -> {None, PyInt(0), PyInt(5)}
      [] name = "include_history"      -> {None, PyBool(FALSE), PyBool(TRUE)}

Assignments ==
    { [n \in {ParamNames[i] : i \in 1..7} |->
         CASE n = "start_date" -> v1 [] n = "end_date" -> v2 [] n = "detail" -> v3
           [] n = "update_after" -> v4 [] n = "first_n_observations" -> v5
           [] n = "last_n_observations" -> v6 [] n = "include_history" -> v7] :
        v1 \in ParamValues("start_date"), v2 \in ParamValues("end_date"),
        v3 \in ParamValues("detail"), v4 \in ParamValues("update_after"),
        v5 \in ParamValues("first_n_observations"),
        v6 \in ParamValues("last_n_observations"),
        v7 \in ParamValues("include_history") }

\* Orders in which a call site may write the keyword arguments: declaration
\* order, its reverse, and two mixed ones.
KwargOrders ==
    { <<1, 2, 3, 4, 5, 6, 7>>, <<7, 6, 5, 4, 3, 2, 1>>,
      <<7, 2, 1, 5, 3, 6, 4>>, <<4, 1, 6, 7, 2, 5, 3>> }

\* The keyword arguments of a call that supplies assignment a in order o: the
\* parameters left out do not appear.
Kwargs(a, o) ==
    LET supplied == SelectSeq(o, LAMBDA i : a[ParamNames[i]] # None)
    IN  [k \in 1..Len(supplied) |->
           [name |-> ParamNames[supplied[k]], value |-> a[ParamNames[supplied[k]]]]]

\* Python binds keyword arguments to parameters by name (lines 659-669 and
\* 714-719): a parameter not supplied keeps its default None.
Bind(kwargs) ==
    [n \in {ParamNames[i] : i \in 1..7} |->
        IF \E k \in 1..Len(kwargs) : kwargs[k].name = n
        THEN kwargs[CHOOSE k \in 1..Len(kwargs) : kwargs[k].name = n].value
        ELSE None]

\* The instances a successful construction leaves.
Instances ==
    { __init__(a.proxies, a.verify, a.api_endpoint, msg1, msg2).obj :
        a \in ConstructorArgs,
        msg1 \in { m \in ValidatedAnswers : m.response.status_code = 200 },
        msg2 \in ListingAnswers }

InitUrl ==
    /\ module = "loaded"
    /\ self \in { i \in Instances : Len(i.all_dataflows.index) = 1 }
    /\ call = NoCall
    /\ \E series_key \in SeriesKeys \cup {SampleKey}, a \in Assignments, o \in KwargOrders :
         /\ series_key = SampleKey \/ (a = AllNone /\ o = <<1, 2, 3, 4, 5, 6, 7>>)
         /\ args = [op |-> "_build_url", series_key |-> series_key, kwargs |-> Kwargs(a, o)]

\* One call of _build_url on the drawn arguments.
BuildUrl ==
    /\ args.op = "_build_url"
    /\ call.op = "none"
    /\ LET b == _build_url(self.api_endpoint.s, args.series_key, Bind(args.kwargs)) IN
       call' = Call("_build_url", IF b.raised THEN <<"raise">> ELSE <<"return">>, <<>>, <<>>,
                    b.error, PyStr(b.url), self, <<>>)
    /\ UNCHANGED <<module, self, args>>

NextUrl == BuildUrl

SpecUrl == InitUrl /\ [][NextUrl]_vars

----------------------------------------------------------------------------
(* Properties of _build_url *)

\* The number of places where sub occurs in s.
Occurrences(s, sub) ==
    Cardinality({ i \in 0..(Len(s) - Len(sub)) : SubSeq(s, i + 1, i + Len(sub)) = sub })

\* The place where sub first occurs in s.
Position(s, sub) ==
    CHOOSE i \in 0..(Len(s) - Len(sub)) :
        /\ SubSeq(s, i + 1, i + Len(sub)) = sub
        /\ \A j \in 0..(i - 1) : SubSeq(s, j + 1, j + Len(sub)) # sub

\* _build_url has returned a URL.
UrlBuilt == call.op = "_build_url" /\ call.outcome = "returned"

ServiceDataText == <<"/","s","e","r","v","i","c","e","/","d","a","t","a","/">>

FormatText == <<"?","f","o","r","m","a","t","=","c","s","v","d","a","t","a">>

\* C1: with no optional parameter supplied, the URL built for a series key
\* <dataflow>.<path> is exactly <api_endpoint>/service/data/<dataflow>/<path>
\* ?format=csvdata, where <dataflow> holds no '.' and <path> keeps its dots,
\* and the URL holds no '&'.
C1_BareUrl ==
    (UrlBuilt /\ args.kwargs = <<>>) =>
        /\ \E k \in 1..Len(args.series_key) :
              /\ args.series_key[k] = "."
              /\ \A j \in 1..(k - 1) : args.series_key[j] # "."
              /\ call.result.s =
                    self.api_endpoint.s \o ServiceDataText
                      \o SubSeq(args.series_key, 1, k - 1) \o <<"/">>
                      \o SubSeq(args.series_key, k + 1, Len(args.series_key))
                      \o FormatText
        /\ Occurrences(call.result.s, <<"&">>) = 0

\* A bare URL was built for a key whose path holds a further dot.
C1_Witness ==
    /\ UrlBuilt
    /\ args.kwargs = <<>>
    /\ Occurrences(args.series_key, <<".">>) >= 2
    /\ args.series_key[1] # "."

\* The values the claims call absent or falsy.
FalsyValues == {None, PyStr(<<>>), PyInt(0), PyBool(FALSE)}

\* The parameters the call supplied with a value that is not falsy, as
\* positions in the declaration order.
SuppliedTruthy ==
    { i \in 1..7 : \E k \in 1..Len(args.kwargs) :
                      /\ args.kwargs[k].name = ParamNames[i]
                      /\ args.kwargs[k].value \notin FalsyValues }

\* The query names of the remote interface, in the order the spec fixes.
QueryNames ==
    <<"startPeriod", "endPeriod", "detail", "updatedAfter",
      "firstNObservations", "lastNObservations", "includeHistory">>

\* The text "&<name>=" of a query name.
QueryText(name) ==
    CASE name = "startPeriod"        -> <<"&","s","t","a","r","t","P","e","r","i","o","d","=">>
      [] name = "endPeriod"          -> <<"&","e","n","d","P","e","r","i","o","d","=">>
      [] name = "detail"             -> <<"&","d","e","t","a","i","l","=">>
      [] name = "updatedAfter"       -> <<"&","u","p","d","a","t","e","d","A","f","t","e","r","=">>
      [] name = "firstNObservations" -> <<"&","f","i","r","s","t","N","O","b","s","e","r","v","a","t","i","o","n","s","=">>
      [] name = "lastNObservations"  -> <<"&","l","a","s","t","N","O","b","s","e","r","v","a","t","i","o","n","s","=">>
      [] name = "includeHistory"     -> <<"&","i","n","c","l","u","d","e","H","i","s","t","o","r","y","=">>

\* The query string of the example of tests/local.py.
ExampleQuery ==
    <<"&","s","t","a","r","t","P","e","r","i","o","d","=","2","0","2","0","-","0","1","-","0","1",
      "&","e","n","d","P","e","r","i","o","d","=","2","0","2","4","-","1","0","-","2","3",
      "&","i","n","c","l","u","d","e","H","i","s","t","o","r","y","=","T","r","u","e">>

\* The call supplies exactly the keyword arguments of the example, in any order.
ExampleCall ==
    /\ Len(args.kwargs) = 3
    /\ Bind(args.kwargs)["start_date"] = PyStr(<<"2","0","2","0","-","0","1","-","0","1">>)
    /\ Bind(args.kwargs)["end_date"] = PyStr(<<"2","0","2","4","-","1","0","-","2","3">>)
    /\ Bind(args.kwargs)["include_history"] = PyBool(TRUE)

\* C2: whatever the order of the keyword arguments at the call site, the
\* query terms follow ?format=csvdata in the order startPeriod, endPeriod,
\* detail, updatedAfter, firstNObservations, lastNObservations,
\* includeHistory; the example call yields the base URL followed by exactly
\* &startPeriod=2020-01-01&endPeriod=2024-10-23&includeHistory=True.
C2_FixedOrder ==
    UrlBuilt =>
        /\ \A i \in SuppliedTruthy :
              /\ Position(call.result.s, FormatText)
                    < Position(call.result.s, QueryText(QueryNames[i]))
              /\ \A j \in SuppliedTruthy :
                    i < j => Position(call.result.s, QueryText(QueryNames[i]))
                               < Position(call.result.s, QueryText(QueryNames[j]))
        /\ ExampleCall =>
              \E k \in 1..Len(args.series_key) :
                 /\ \A j \in 1..(k - 1) : args.series_key[j] # "."
                 /\ call.result.s =
                       self.api_endpoint.s \o ServiceDataText
                         \o SubSeq(args.series_key, 1, k - 1) \o <<"/">>
                         \o SubSeq(args.series_key, k + 1, Len(args.series_key))
                         \o FormatText \o ExampleQuery

\* The example was called with include_history written first.
C2_Witness ==
    /\ UrlBuilt
    /\ ExampleCall
    /\ args.kwargs[1].name = "include_history"
    /\ args.kwargs[3].name = "start_date"

\* C3: the URL holds exactly one term &name=value for each parameter whose
\* value is truthy and no term for a parameter that is missing or falsy, so
\* it holds as many '&' as there are truthy parameters.
C3_OneTermPerTruthy ==
    UrlBuilt =>
        /\ \A i \in 1..7 :
              LET v == Bind(args.kwargs)[ParamNames[i]] IN
              IF i \in SuppliedTruthy
              THEN /\ Occurrences(call.result.s, QueryText(QueryNames[i])) = 1
                   /\ Occurrences(call.result.s, QueryText(QueryNames[i]) \o Format(v)) = 1
              ELSE Occurrences(call.result.s, QueryText(QueryNames[i])) = 0
        /\ Occurrences(call.result.s, <<"&">>) = Cardinality(SuppliedTruthy)

\* A URL was built for explicit falsy values next to truthy ones.
C3_Witness ==
    /\ UrlBuilt
    /\ Bind(args.kwargs)["include_history"] = PyBool(FALSE)
    /\ Bind(args.kwargs)["first_n_observations"] = PyInt(0)
    /\ Bind(args.kwargs)["start_date"] = PyStr(<<>>)
    /\ Cardinality(SuppliedTruthy) = 4

----------------------------------------------------------------------------
(* Properties of the validator and of the operations that call it *)

\* The operations that hand a response to the validator.
ValidatingOps == {"__init__", "all_data_keys_for_dataflow", "get_ecb_data"}

\* The last call handed the validator a response with status c.
Judged(c) == call.validated = <<c>>

\* The number of times event e happened in the last call.
Count(e) == Cardinality({ i \in 1..Len(call.events) : call.events[i] = e })

\* The last call wrote a log entry at the given level.
Logged(level) == \E i \in 1..Len(call.log) : call.log[i].level = level

\* C4: when the response handed to the validator has status 200, the
\* validator raises nothing and logs at info level only, and the operation
\* returns its normalized table (connection set-up stores the listing).
C4_Status200Returns ==
    Judged(200) =>
        /\ call.op \in ValidatingOps
        /\ call.outcome = "returned"
        /\ call.error = NoError
        /\ Logged("info") /\ ~Logged("error")
        /\ call.op \in {"all_data_keys_for_dataflow", "get_ecb_data"} =>
              call.result.t = "table" /\ Count("parse") = 1
        /\ call.op = "__init__" =>
              call.obj.all_dataflows.t = "series" /\ self = call.obj

\* get_ecb_data returned a date-indexed table of two rows for a 200 response.
C4_Witness ==
    /\ Judged(200)
    /\ call.op = "get_ecb_data"
    /\ call.result.t = "table"
    /\ call.result.index_name = "Date"
    /\ Len(call.result.rows) = 2

\* C5: a response with status 404 makes the validator raise an error whose
\* message holds the text 404 and the text of the table used for 404, and
\* the calling operation returns no data.
C5_Status404Raises ==
    Judged(404) =>
        /\ call.outcome = "raised"
        /\ Embeds(call.error, "404")
        /\ \/ Embeds(call.error, "Not Found")
           \/ Embeds(call.error, "No results found. There are no results matching the query.")
        /\ call.result = None
        /\ Count("parse") = 0 /\ Count("return") = 0

\* get_ecb_data was answered with status 404.
C5_Witness ==
    /\ Judged(404)
    /\ call.op = "get_ecb_data"
    /\ call.outcome = "raised"

\* The texts the two tables hold for a status code.
TableTexts(c) ==
    (IF c \in DOMAIN errors_msgs THEN {errors_msgs[c]} ELSE {})
      \cup (IF c \in DOMAIN ERROR_CODES_DICT THEN {ERROR_CODES_DICT[c]} ELSE {})

ValidatorCodes == {304, 400, 404, 406, 500, 501, 503}

C7_UnknownStatusFails ==
    \A c \in StatusCodes \ ({200} \cup DOMAIN errors_msgs \cup DOMAIN ERROR_CODES_DICT) :
        Judged(c) =>
            /\ Logged("error")
            /\ call.outcome = "raised"
            /\ call.error.type = "HTTPError"
            /\ Count("parse") = 0
            /\ call.result = None

\* The public operations that receive a response from the remote service.
ReceivingOps ==
    {"search_dataflow_attributes", "search_dataflow_dimensions",
     "search_dataflow_dimension_values", "search_dataflow_constraints",
     "search_dataflow_measures", "all_category_schemes",
     "all_data_keys_for_dataflow", "get_ecb_data"}

FirstEvent(e) ==
    IF Count(e) = 0 THEN 0
    ELSE CHOOSE i \in 1..Len(call.events) :
            call.events[i] = e /\ \A j \in 1..(i - 1) : call.events[j] # e

C9_ValidateBeforeLoad ==
    /\ (call.op = "__init__" /\ ~Judged(200)) =>
          /\ call.outcome = "raised"
          /\ call.obj.ecb_connection = Unset
          /\ call.obj.all_dataflows = Unset
          /\ self # call.obj
    /\ (call.op = "__init__" /\ Count("store_listing") > 0) =>
          /\ Judged(200)
          /\ FirstEvent("open_handle") < FirstEvent("validate")
          /\ FirstEvent("validate") < FirstEvent("store_handle")
          /\ FirstEvent("store_handle") < FirstEvent("store_listing")
    /\ module = "import_failed" => self = NoInstance

\* C10: the listing is stored exactly once, by the construction of the
\* instance, and no later operation on the instance, returning or raising,
\* changes the listing, the handle, the endpoint, the proxy map or the
\* verification flag.
C10_ReadOnlyAfterInit ==
    /\ [](call.op = "__init__" /\ call.outcome = "returned" => Count("store_listing") = 1)
    /\ [](call.op # "__init__" => Count("store_listing") = 0 /\ Count("store_handle") = 0)
    /\ [][(module = "loaded" /\ call'.op # "__init__") =>
             /\ self' = self
             /\ call'.obj = self]_vars

\* An operation failed on an instance that holds its listing.
C10_Witness ==
    /\ module = "loaded"
    /\ call.op = "all_data_keys_for_dataflow"
    /\ call.outcome = "raised"
    /\ self.all_dataflows.t = "series"
    /\ call.obj = self

----------------------------------------------------------------------------
(* Properties of the discovery operations *)

\* The key word, taken as plain text, is a substring of the label: exactly
\* when case is TRUE, ignoring letter case otherwise.
ContainsKeyWord(label, key_word, case) ==
    IF case THEN Contains(label, key_word) ELSE Contains(Lower(label), Lower(key_word))

\* The entries of a listing whose label satisfies Keep, in listing order.
Subset(series, Keep(_)) ==
    LET m == SelectSeq([i \in 1..Len(series.values) |-> i],
                       LAMBDA i : Keep(series.values[i]))
    IN  [t |-> "series", index |-> [i \in 1..Len(m) |-> series.index[m[i]]],
         values |-> [i \in 1..Len(m) |-> series.values[m[i]]]]

\* C11: search_dataflows(key_word, case) returns exactly the entries of the
\* cached listing whose label contains key_word as a substring, ignoring
\* letter case when case is False and exactly when case is True.
C11_SubstringSubset ==
    call.op = "search_dataflows" =>
        /\ call.outcome = "returned"
        /\ call.result = Subset(self.all_dataflows,
                                LAMBDA label : ContainsKeyWord(label, args.key_word, args.case))

\* C12: all_data_keys_for_dataflow with an identifier that is not in the
\* cached listing logs an error, returns nothing, raises nothing and sends
\* no HTTP request; it sends its one request exactly when the identifier is
\* in the cached listing.
C12_AbsentDataflowNoRequest ==
    call.op = "all_data_keys_for_dataflow" =>
        IF InIndex(self.all_dataflows, args.dataflow)
        THEN Len(call.requests) = 1 /\ Count("request") = 1
        ELSE /\ call.requests = <<>> /\ Count("request") = 0
             /\ call.validated = <<>>
             /\ call.outcome = "returned" /\ call.error = NoError
             /\ call.result = None
             /\ Logged("error")

\* The identifier XX, which no listing holds, was asked for.
C12_Witness ==
    /\ call.op = "all_data_keys_for_dataflow"
    /\ args.dataflow = <<"X","X">>
    /\ ~InIndex(self.all_dataflows, args.dataflow)
    /\ call.outcome = "returned"
    /\ call.result = None
    /\ Logged("error")

\* The rows of a table whose complete title satisfies Keep, in table order.
RowsWhere(df, Keep(_)) == SelectSeq(df.rows, LAMBDA row : Keep(row.TITLE_COMPL))

\* C13: search_data_keys_for_dataflow returns a row if and only if its
\* complete title contains the key word when letter case is ignored on both
\* sides, for every key word and every series-key table.
C13_CaseInsensitiveTitleMatch ==
    call.op = "search_data_keys_for_dataflow" =>
        /\ call.outcome = "returned"
        /\ call.result.rows =
              RowsWhere(args.all_data_keys_for_dataflow,
                        LAMBDA title : Contains(Lower(title), Lower(args.key_word)))

----------------------------------------------------------------------------
(* Properties of the table get_ecb_data returns *)

\* get_ecb_data returned the table of a response it fetched.
Fetched == call.op = "get_ecb_data" /\ call.outcome = "returned" /\ Count("parse") = 1

\* The index of the returned table runs in the direction asked for.
InDirection(index, ascending) ==
    \A i, j \in 1..Len(index) :
        i < j => IF ascending THEN index[i] <= index[j] ELSE index[i] >= index[j]

\* C14: when the fetched CSV has a TIME_PERIOD column, the table returned has
\* an index named Date that holds the parsed values of that column, is
\* non-decreasing when ascending is True and non-increasing when it is
\* False, and its rows are a permutation of the fetched rows.
C14_DateIndexSorted ==
    (Fetched /\ HasColumn(args.body, "TIME_PERIOD")) =>
        LET df == call.result
            n == Len(args.body.rows)
        IN  /\ df.index_name = "Date"
            /\ Len(df.rows) = n /\ Len(df.index) = n
            /\ InDirection(df.index, args.ascending)
            /\ \E f \in Permutations1(n) :
                 \A i \in 1..n :
                    /\ df.index[i] = to_datetime(args.body.rows[f[i]].TIME_PERIOD)
                    /\ df.rows[i].OBS_VALUE = args.body.rows[f[i]].OBS_VALUE

\* Two observations delivered oldest first were asked for newest first and
\* came back in that order.
C14_Witness ==
    /\ Fetched
    /\ HasColumn(args.body, "TIME_PERIOD")
    /\ Len(args.body.rows) = 2
    /\ to_datetime(args.body.rows[1].TIME_PERIOD) < to_datetime(args.body.rows[2].TIME_PERIOD)
    /\ ~args.ascending
    /\ call.result.index_name = "Date"
    /\ call.result.index[1] > call.result.index[2]
    /\ call.result.rows[1].OBS_VALUE = 2

\* C15: when the fetched CSV has no TIME_PERIOD column, get_ecb_data returns
\* the rows in the order the response delivered them, whatever the value of
\* ascending, with no index named Date and the columns as delivered.
C15_NoTimeColumnUnsorted ==
    (Fetched /\ ~HasColumn(args.body, "TIME_PERIOD")) =>
        /\ call.result.rows = args.body.rows
        /\ call.result.index_name # "Date"
        /\ call.result.columns = args.body.columns

----------------------------------------------------------------------------
(* Properties of the operations that read a structure definition *)

\* The message of exception e quotes the text x.
Quotes(e, x) == \E i \in 1..Len(e.quoted) : e.quoted[i] = x

\* The dimension names of the structure the metadata service answered with.
Listed(structure) == { structure.dimensions[i].id : i \in 1..Len(structure.dimensions) }

\* The error that names a dimension the dataflow does not have.
UnresolvedDimension(e) ==
    e.type = "ValueError" /\ e.parts = <<"Dimension '", "' not found in dataflow: ">>

\* C16: search_dataflow_dimension_values lists the dimensions first and,
\* when the named dimension is not among them, raises an error naming the
\* dimension and the dataflow before any lookup of values; when the dataflow
\* does not resolve, the unresolved-identifier error is raised first,
\* whatever the dimension.
C16_DimensionCheckedFirst ==
    call.op = "search_dataflow_dimension_values" =>
        /\ ~args.found =>
              /\ call.outcome = "raised"
              /\ call.error = NoDefinitionError(args.dataflow)
              /\ Count("normalize") = 0 /\ Count("lookup_values") = 0
        /\ (args.found /\ args.dimension \notin Listed(args.structure)) =>
              /\ call.outcome = "raised"
              /\ UnresolvedDimension(call.error)
              /\ Quotes(call.error, args.dimension) /\ Quotes(call.error, args.dataflow)
              /\ Count("normalize") = 1 /\ Count("lookup_values") = 0
        /\ (args.found /\ args.dimension \in Listed(args.structure)) =>
              /\ call.outcome = "returned"
              /\ Count("lookup_values") = 1

\* The dimension TIME was asked for of a dataflow whose structure has none.
C16_Witness ==
    /\ call.op = "search_dataflow_dimension_values"
    /\ args.found
    /\ args.dimension = <<"T","I","M","E">>
    /\ args.structure = FlatStructure
    /\ UnresolvedDimension(call.error)
    /\ call.error.quoted = <<args.dimension, args.dataflow>>

\* C17: for a dataflow of the cached listing, after search_dataflow_dimensions
\* returned its list, search_dataflow_dimension_values for a name of that list
\* raises no unresolved-dimension error, as long as the metadata service
\* answers both calls with the same structure definition.
C17_ListedDimensionsResolve ==
    [][ ( /\ call.op = "search_dataflow_dimensions"
          /\ call.outcome = "returned"
          /\ InIndex(self.all_dataflows, args.dataflow)
          /\ call'.op = "search_dataflow_dimension_values"
          /\ args'.dataflow = args.dataflow
          /\ args'.structure = args.structure
          /\ \E i \in 1..Len(call.result.items) : call.result.items[i] = args'.dimension )
        => ~UnresolvedDimension(call'.error) ]_vars

\* The values of a listed dimension of a dataflow of the cached listing came
\* back.
C17_Witness ==
    /\ call.op = "search_dataflow_dimension_values"
    /\ InIndex(self.all_dataflows, args.dataflow)
    /\ args.found
    /\ args.dimension = <<"F","R","E","Q">>
    /\ args.dimension \in Listed(args.structure)
    /\ call.outcome = "returned"
    /\ call.result.items = <<"A", "M">>

\* The operations that read the structure definition of a dataflow.
StructureOps ==
    {"search_dataflow_attributes", "search_dataflow_dimensions",
     "search_dataflow_measures", "search_dataflow_dimension_values"}

\* C18: each of search_dataflow_attributes, search_dataflow_dimensions,
\* search_dataflow_measures and search_dataflow_dimension_values, given an
\* identifier that resolves to no structure definition, raises an error that
\* names the identifier and returns no list, empty or partial.
C18_UnresolvedDataflowRaises ==
    (call.op \in StructureOps /\ ~args.found) =>
        /\ call.outcome = "raised"
        /\ call.error.type = "ValueError"
        /\ Embeds(call.error, "No DataflowDefinition found for dataflow: ")
        /\ Quotes(call.error, args.dataflow)
        /\ call.result = None
        /\ Count("return") = 0

\* search_dataflow_measures was asked for XX, which resolves to nothing.
C18_Witness ==
    /\ call.op = "search_dataflow_measures"
    /\ args.dataflow = <<"X","X">>
    /\ ~args.found
    /\ call.outcome = "raised"
    /\ Quotes(call.error, <<"X","X">>)

----------------------------------------------------------------------------
(* Properties of the calls as a whole *)

\* The operations that send an HTTP GET of their own.
DirectGetOps == {"all_data_keys_for_dataflow", "get_ecb_data"}

\* The last event of the last call.
LastEvent == call.events[Len(call.events)]

\* C19: one call of get_ecb_data or all_data_keys_for_dataflow sends at most
\* one HTTP GET; when the response fails validation the call raises once,
\* right after the validation, having sent no second request.
C19_NoRetry ==
    call.op \in DirectGetOps =>
        /\ Len(call.requests) <= 1
        /\ Count("request") = Len(call.requests)
        /\ Count("response") <= 1 /\ Count("validate") <= 1
        /\ call.outcome = "raised" /\ call.validated # <<>> =>
              /\ Count("request") = 1
              /\ Count("raise") = 1
              /\ LastEvent = "raise"
              /\ call.events[Len(call.events) - 1] = "validate"
              /\ call.result = None

\* get_ecb_data was answered with 503 and raised after its one request.
C19_Witness ==
    /\ call.op = "get_ecb_data"
    /\ Judged(503)
    /\ call.outcome = "raised"
    /\ Len(call.requests) = 1
    /\ LastEvent = "raise"

\* C20: loading the module opens no connection and sends no request: the
\* step that takes the module from not loaded to loaded or failed leaves a
\* state in which the caller has invoked nothing and nothing went to the
\* remote service.
C20_ImportSendsNothing ==
    [][ module = "unloaded" /\ module' # "unloaded" =>
          /\ call'.requests = <<>>
          /\ \A i \in 1..Len(call'.events) :
                call'.events[i] \notin {"open_handle", "request"} ]_vars

----------------------------------------------------------------------------
(* Properties of the title search and of the requests sent *)

\* C21: for every series-key table and every lower-case key word, the rows
\* search_data_keys_for_dataflow returns are exactly the rows of the table
\* whose lower-cased complete title contains the key word, in their original
\* order and under a fresh index 0..n-1, also when rows share a title or
\* titles differ by letter case only.
C21_DistinctTitlesAsRowScan ==
    (call.op = "search_data_keys_for_dataflow" /\ args.key_word = Lower(args.key_word)) =>
        LET df == args.all_data_keys_for_dataflow
            kept == RowsWhere(df, LAMBDA title : Contains(Lower(title), args.key_word))
        IN  /\ call.outcome = "returned"
            /\ call.result.rows = kept
            /\ call.result.index = [i \in 1..Len(kept) |-> i - 1]
            /\ call.result.columns = df.columns

\* The key word eu was looked for in a table whose second row only matches,
\* with a title written with a capital.
C21_Witness ==
    /\ call.op = "search_data_keys_for_dataflow"
    /\ args.key_word = <<"e","u">>
    /\ Len(args.all_data_keys_for_dataflow.rows) = 2
    /\ args.all_data_keys_for_dataflow.rows[1].TITLE_COMPL = <<"F","x">>
    /\ args.all_data_keys_for_dataflow.rows[2].TITLE_COMPL = <<"E","u","r">>
    /\ call.result.rows = <<args.all_data_keys_for_dataflow.rows[2]>>
    /\ call.result.index = <<0>>

\* The requests the last call sent with requests.get.
GetRequests == { call.requests[i] : i \in 1..Len(call.requests) }

\* C22: every HTTP GET sent by all_data_keys_for_dataflow and get_ecb_data
\* has the timeout of 90 seconds and carries the proxy mapping and the
\* certificate-verification flag given at construction, when they are set.
C22_GetCarriesSettings ==
    call.op \in DirectGetOps =>
        \A req \in GetRequests :
            /\ req.timeout = PyInt(90)
            /\ self.proxies # None => req.proxies = self.proxies
            /\ self.verify # None => req.verify = self.verify

\* s starts with the text prefix.
StartsWith(s, prefix) == Len(s) >= Len(prefix) /\ SubSeq(s, 1, Len(prefix)) = prefix

\* C23: the URL of every request sent by get_ecb_data and by
\* all_data_keys_for_dataflow starts with the api_endpoint the instance was
\* constructed with, followed by /service/data/.
C23_RequestsTargetEndpoint ==
    call.op \in DirectGetOps =>
        \A req \in GetRequests :
            StartsWith(req.url, self.api_endpoint.s \o ServiceDataText)

\* The series key text holds the delimiter.
WellFormed(series_key) == \E i \in 1..Len(series_key.s) : series_key.s[i] = "."

\* C24: get_ecb_data sends a request only for a series key that holds a '.':
\* without one the call raises the error of URL building, with None it
\* returns nothing; in both cases no request is sent and the validator is
\* not invoked.
C24_RequestOnlyForWellFormedKey ==
    call.op = "get_ecb_data" =>
        /\ args.series_key = None =>
              /\ call.outcome = "returned" /\ call.result = None
              /\ call.requests = <<>> /\ call.validated = <<>>
              /\ Count("request") = 0 /\ Count("validate") = 0
        /\ (args.series_key # None /\ ~WellFormed(args.series_key)) =>
              /\ call.outcome = "raised" /\ call.error.type = "ValueError"
              /\ call.events = <<"build_url", "raise">>
              /\ call.requests = <<>> /\ call.validated = <<>>
        /\ call.requests # <<>> => args.series_key # None /\ WellFormed(args.series_key)

\* get_ecb_data was called with the key FM, which holds no delimiter.
C24_Witness ==
    /\ call.op = "get_ecb_data"
    /\ args.series_key = PyStr(<<"F","M">>)
    /\ call.outcome = "raised"
    /\ call.error.type = "ValueError"
    /\ call.requests = <<>>

====
